---- MODULE Spec2Model ----
(***************************************************************************)
(* Layered media-URL extraction service (server.py).                       *)
(*                                                                         *)
(* Two request handlers run the same four strategies in a fixed order:     *)
(*   extract             POST /extract, answers with one JSON document     *)
(*   extract_stream_sse  GET /extract_stream_sse, answers with a lazily    *)
(*                       pulled generator of server-sent events            *)
(* The strategies are simple_http_extract ("basic"), yt_dlp_extract        *)
(* ("yt_dlp"), playwright_extract ("playwright") and a second fetch        *)
(* followed by fallback_regex ("fallback_regex").  What the network, the   *)
(* yt-dlp subprocess and the browser answer is chosen nondeterministically *)
(* at the moment of the call.                                              *)
(***************************************************************************)
EXTENDS Integers, Sequences, FiniteSets, TLC

VARIABLES
    HAS_YTDLP,       \* module flag: yt-dlp --version ran at import time
    HAS_PLAYWRIGHT,  \* module flag: playwright.sync_api was importable
    req,             \* the request being served: endpoint, url, options
    pc,              \* position of the handler / generator
    attempts,        \* the handler's local dict: strategy name -> URL list
    response,        \* the JSON document returned (extract) or the payload
                     \* of the 'done' event (extract_stream_sse)
    stream,          \* the server-sent events yielded so far
    log,             \* history: strategy calls, returns and yields, in order
    pw,              \* playwright_extract: its position and local variables
    page,            \* the page of the current browsing context
    browser,         \* the browser process and its browsing contexts
    session,         \* history of the current playwright_extract call
    cancelled,       \* the client of the event stream has disconnected
    first            \* the answer and history of the request served before

vars == <<HAS_YTDLP, HAS_PLAYWRIGHT, req, pc, attempts, response, stream, log,
          pw, page, browser, session, cancelled, first>>

----------------------------------------------------------------------------
(* Bounds and universes *)

\* longest list the environment (HTML matches, yt-dlp lines, formats) hands in
MaxLen == 2

PageUrl == "https://site/page"

\* absolute media URLs the environment can show
URL == {"https://cdn/a.m3u8", "https://site/b.mp4"}

\* relative references a src attribute can hold
Rel == {"/b.mp4"}

\* the keys of the attempts dict, in the order the handlers run them
Strategies == <<"basic", "yt_dlp", "playwright", "fallback_regex">>

StrategySet == {Strategies[i] : i \in DOMAIN Strategies}

Index(s) == CHOOSE i \in DOMAIN Strategies : Strategies[i] = s

SeqUpTo(S, n) == UNION {[1..k -> S] : k \in 0..n}

Range(q) == {q[i] : i \in DOMAIN q}

----------------------------------------------------------------------------
(* Python helpers *)

\* list(a_set): every element once, in an iteration order the build chooses
ListOfSet(S) == {q \in [1..Cardinality(S) -> S] : Range(q) = S}

\* list(dict.fromkeys(q)): first occurrences, in order
RECURSIVE dict_fromkeys(_)
dict_fromkeys(q) ==
    IF q = <<>> THEN <<>>
    ELSE LET r == dict_fromkeys(SubSeq(q, 1, Len(q) - 1))
             x == q[Len(q)]
         IN IF x \in Range(r) THEN r ELSE Append(r, x)

\* requests.compat.urljoin(base, ref) for the references of the model
urljoin(base, ref) ==
    IF ref \in Rel THEN "https://site" \o ref ELSE ref

\* what a call hands back to its caller: a list, or an exception
Ret(q) == [raised |-> FALSE, urls |-> q]

Raise == [raised |-> TRUE, urls |-> <<>>]

----------------------------------------------------------------------------
(* What the outside world can answer *)

\* requests.get(url, ...) and the parse of its body: an exception, or a page
\* with the regex matches of its HTML in document order, the src values of
\* its <video>/<source> tags and the content of its og:video meta ("" = none)
GetOutcome ==
    {[raised |-> TRUE, matches |-> <<>>, src |-> {}, og |-> ""]}
    \cup [raised : {FALSE}, matches : SeqUpTo(URL, MaxLen),
          src : SUBSET (URL \cup Rel), og : URL \cup {""}]

\* subprocess.run(["yt-dlp", "-g", url]): timeout/OSError, or a return code
\* and the non-blank lines of stdout
ProcG ==
    {[raised |-> TRUE, returncode |-> 1, lines |-> <<>>]}
    \cup [raised : {FALSE}, returncode : {0, 1}, lines : SeqUpTo(URL, MaxLen)]

\* subprocess.run(["yt-dlp", "-j", url]): timeout/OSError, or a return code
\* and stdout: empty, not JSON, or a JSON object with "url" and "formats"
ProcJ ==
    {[raised |-> TRUE, returncode |-> 1, stdout |-> "", url |-> "", formats |-> <<>>]}
    \cup [raised : {FALSE}, returncode : {0, 1}, stdout : {"", "bad"},
          url : {""}, formats : {<<>>}]
    \cup [raised : {FALSE}, returncode : {0, 1}, stdout : {"json"},
          url : URL \cup {""}, formats : SeqUpTo(URL, MaxLen)]

\* one browser session: which failure happened ("launch": chromium did not
\* start, "step": navigation timed out or an interaction raised) and the
\* URLs the session had put into `collected` when it ended
BrowserOutcome ==
    {[failure |-> "launch", collected |-> {}]}
    \cup [failure : {"none", "step"}, collected : SUBSET URL]

----------------------------------------------------------------------------
(* The strategies *)

\* simple_http_extract without its try/except: a failed fetch raises
simple_http_extract_nocatch(r) ==
    IF r.raised THEN {Raise}
    ELSE LET links == Range(r.matches)
                      \cup {urljoin(PageUrl, s) : s \in r.src}
                      \cup (IF r.og # "" THEN {r.og} ELSE {})
         IN {Ret(q) : q \in ListOfSet(links)}

\* simple_http_extract(url): the set of lists it can return for a GET outcome
simple_http_extract(r) ==
    IF r.raised THEN {Ret(<<>>)}
    ELSE LET links == Range(r.matches)
                      \cup {urljoin(PageUrl, s) : s \in r.src}
                      \cup (IF r.og # "" THEN {r.og} ELSE {})
         IN {Ret(q) : q \in ListOfSet(links)}

\* yt_dlp_extract(url)
yt_dlp_extract(g, j) ==
    IF ~HAS_YTDLP THEN Ret(<<>>)
    ELSE IF g.raised THEN Ret(<<>>)
    ELSE IF g.returncode = 0 /\ g.lines # <<>> THEN Ret(g.lines)
    ELSE IF j.raised THEN Ret(<<>>)
    ELSE IF j.returncode = 0 /\ j.stdout # ""
         THEN IF j.stdout = "bad" THEN Ret(<<>>)
              ELSE LET links == (IF j.url # "" THEN <<j.url>> ELSE <<>>) \o j.formats
                   IN Ret(dict_fromkeys(SelectSeq(links, LAMBDA l : l # "")))
    ELSE Ret(<<>>)

\* playwright_extract giving up its findings when the session failed
playwright_extract_lossy(b) ==
    IF ~HAS_PLAYWRIGHT \/ b.failure # "none" THEN {Ret(<<>>)}
    ELSE {Ret(dict_fromkeys([i \in DOMAIN q |-> urljoin(PageUrl, q[i])])) :
             q \in ListOfSet(b.collected)}

\* playwright_extract(url): the set of lists it can return for a session.
\* The session itself (contexts, hooks, clicks, polls) is summed up by its
\* BrowserOutcome; lines 357-367 turn `collected` into the returned list
playwright_extract(b) ==
    IF ~HAS_PLAYWRIGHT THEN {Ret(<<>>)}
    ELSE {Ret(dict_fromkeys([i \in DOMAIN q |-> urljoin(PageUrl, q[i])])) :
             q \in ListOfSet(b.collected)}

\* fallback_regex(html, base_url)
fallback_regex(html) == dict_fromkeys(html.matches)

----------------------------------------------------------------------------
(* History: which failure, if any, a strategy call absorbed *)

StaticErr(r) == IF r.raised THEN "network" ELSE "none"

YtDlpErr(g, j) ==
    IF ~HAS_YTDLP THEN "unavailable"
    ELSE IF g.raised THEN "timeout"
    ELSE IF g.returncode = 0 /\ g.lines # <<>> THEN "none"
    ELSE IF j.raised THEN "timeout"
    ELSE IF j.returncode = 0 /\ j.stdout = "json" THEN "none"
    ELSE "failed"

BrowserErr(b) == IF ~HAS_PLAYWRIGHT THEN "unavailable" ELSE b.failure

\* failures that end a strategy before it could collect anything
StrategyFailures == {"network", "unavailable", "timeout", "failed", "launch"}

CallEv(s) == [ev |-> "call", s |-> s, kind |-> "-", err |-> "none", urls |-> <<>>]

\* the call came back with the list q
RetEv(s, e, q) == [ev |-> "ret", s |-> s, kind |-> "-", err |-> e, urls |-> q]

\* the call left by an exception
RaiseEv(s, e) == [ev |-> "raise", s |-> s, kind |-> "-", err |-> e, urls |-> <<>>]

YieldEv(k, s) == [ev |-> "yield", s |-> s, kind |-> k, err |-> "none", urls |-> <<>>]

\* one server-sent event: its kind and the strategy it talks about
Event(k, s) == [kind |-> k, s |-> s]

----------------------------------------------------------------------------
(* Request, attempts and response values *)

NoRequest == [endpoint |-> "-", url |-> "", exhaustive |-> FALSE]

\* attempts = {"basic": [], "yt_dlp": [], "playwright": [], "fallback_regex": []}
EmptyAttempts == [s \in StrategySet |-> <<>>]

NoResponse ==
    [kind |-> "-", method |-> "-", links |-> <<>>, attempts |-> EmptyAttempts]

\* {"error": "missing url"}
MissingUrl ==
    [kind |-> "error", method |-> "-", links |-> <<>>, attempts |-> EmptyAttempts]

\* an exception left the handler: the framework answers 500
Unhandled ==
    [kind |-> "exception", method |-> "-", links |-> <<>>, attempts |-> EmptyAttempts]

\* {"method": m, "links": l, "attempts": a}
ExtractionResult(m, l, a) ==
    [kind |-> "result", method |-> m, links |-> l, attempts |-> a]

\* the attempts dict holds bare URL lists: an AttemptRecord is a name and its
\* list, and has no place for an error note
AttemptRecord(r, s) == [name |-> s, urls |-> r.attempts[s], error |-> "-"]

----------------------------------------------------------------------------
(* playwright_extract: constants and values *)

\* click_selectors has seven entries
NumSelectors == 7

\* max_wait_for_network: the polls of one page
wait_cycles == 6

\* (window.__captured_requests || []).slice(-20)
SliceLen == 20

\* most entries the page scripts push into window.__captured_requests
MaxBuffer == 21

\* the browsing contexts of the list `contexts`: 1 desktop, 2 mobile
Contexts == {1, 2}

\* URLs a step can observe, in the order it observes them
Adds == UNION {ListOfSet(S) : S \in SUBSET URL}

\* entries page scripts push while the host sleeps: none, as many as the
\* slice a poll reads, or one more
AppendSizes == {0, SliceLen, SliceLen + 1}

\* the frame of playwright_extract before the call
PwIdle ==
    [at |-> "idle", ctx |-> 0, context |-> 0, collected |-> {}, sel |-> 0,
     clicked_any |-> FALSE, cycle |-> 0]

\* a page right after context.new_page(): the hook's buffer is empty.
\* bufLen is the length of window.__captured_requests; the other fields
\* are history: lastRead is bufLen at the last poll that read it, missed says
\* that some entry was pushed out of reach before any poll read it,
\* poll_failed that a page.evaluate of a poll raised, timed_out that
\* page.goto raised, steps which steps ran on the page, found_any that a
\* click selector matched an element, box_tried that the container click
\* was attempted
NewPage ==
    [bufLen |-> 0, lastRead |-> 0, missed |-> FALSE, poll_failed |-> FALSE,
     timed_out |-> FALSE, steps |-> {}, found_any |-> FALSE, box_tried |-> FALSE]

\* no browser process, no context
NoBrowser == [running |-> FALSE, open |-> {}, opened |-> <<>>]

\* the desktop iteration of the loop over contexts has not ended
NotEnded == [ended |-> "-", found |-> FALSE]

\* history of a call: the kind of failure met, `collected` at the latest
\* exception, the URLs in first-observed order, and how the desktop
\* iteration ended ("normally" or "exception") and whether `collected`
\* held anything then
NewSession ==
    [failure |-> "none", saved |-> {}, order |-> <<>>, desktop |-> NotEnded]

\* no request has been served before the current one
NoRun == [done |-> FALSE, response |-> NoResponse, log |-> <<>>]

Init ==
    /\ first = NoRun
    /\ pw = PwIdle
    /\ page = NewPage
    /\ browser = NoBrowser
    /\ session = NewSession
    /\ cancelled = FALSE
    /\ HAS_YTDLP \in BOOLEAN
    /\ HAS_PLAYWRIGHT \in BOOLEAN
    /\ req = NoRequest
    /\ pc = "idle"
    /\ attempts = EmptyAttempts
    /\ response = NoResponse
    /\ stream = <<>>
    /\ log = <<>>

----------------------------------------------------------------------------
(* playwright_extract, statement by statement.  pw.ctx is the iteration of  *)
(* "for ctx_conf in contexts", pw.context the context the variable          *)
(* `context` is bound to (0: unbound).                                      *)

Others == <<HAS_YTDLP, HAS_PLAYWRIGHT, first, req, pc, attempts, response, stream, log>>

\* the first-observed order after observing the URLs of add
Seen(order, add) == dict_fromkeys(order \o add)

\* an exception was raised while `collected` held coll
Failed(sess, coll) == [sess EXCEPT !.failure = "step", !.saved = coll]

\* the iteration of context ctx ends, normally or in the handler, with
\* `collected` holding coll
EndOfContext(sess, ctx, how, coll) ==
    IF ctx = 1
    THEN [sess EXCEPT !.desktop = [ended |-> how, found |-> coll # {}]]
    ELSE sess

\* the loop goes to its next iteration, or ends after the second
NextContext(f) ==
    IF pw.ctx = 2 THEN [f EXCEPT !.at = "close_browser"]
    ELSE [f EXCEPT !.at = "new_context", !.ctx = 2]

\* lines 342-347: the handler of the loop body closes whatever `context` is
\* bound to (closes: the close took effect) and continues with the next
\* configuration; f, br, sess, pg are the values at the raise
pw_except(f, br, sess, pg, closes) ==
    /\ browser' = [br EXCEPT !.open = IF closes THEN @ \ {f.context} ELSE @]
    /\ session' = EndOfContext(Failed(sess, f.collected), f.ctx, "exception",
                               f.collected)
    /\ pw' = NextContext(f)
    /\ page' = pg

\* lines 104-105, 167-174: sync_playwright() and chromium.launch
pw_launch ==
    /\ pw.at = "launch"
    /\ \E ok \in BOOLEAN :
          IF ok
          THEN /\ browser' = [running |-> TRUE, open |-> {}, opened |-> <<>>]
               /\ pw' = [pw EXCEPT !.at = "new_context", !.ctx = 1]
               /\ session' = session
          ELSE /\ browser' = browser
               /\ pw' = [pw EXCEPT !.at = "exit"]
               /\ session' = [session EXCEPT !.failure = "launch"]
    /\ UNCHANGED <<page, cancelled>>
    /\ UNCHANGED Others

\* lines 182-215: new_context, the init scripts, new_page, page.on
pw_new_context ==
    /\ pw.at = "new_context"
    /\ \E r \in {"ok", "no_context", "no_page"}, closes \in BOOLEAN :
          LET made == [browser EXCEPT !.open = @ \cup {pw.ctx},
                                      !.opened = Append(@, pw.ctx)]
          IN CASE r = "ok" ->
                    /\ closes
                    /\ browser' = made
                    /\ pw' = [pw EXCEPT !.at = "goto", !.context = pw.ctx]
                    /\ page' = NewPage
                    /\ session' = session
               [] r = "no_context" ->
                    pw_except(pw, browser, session, NewPage, closes)
               [] r = "no_page" ->
                    pw_except([pw EXCEPT !.context = pw.ctx], made, session,
                              NewPage, closes)
    /\ UNCHANGED cancelled
    /\ UNCHANGED Others

\* lines 206-221: page.goto; on_response records the responses seen meanwhile
pw_goto ==
    /\ pw.at = "goto"
    /\ \E add \in Adds, ok \in BOOLEAN, closes \in BOOLEAN :
          LET f == [pw EXCEPT !.collected = @ \cup Range(add)]
              sess == [session EXCEPT !.order = Seen(@, add)]
          IN IF ok
             THEN /\ closes
                  /\ pw' = [f EXCEPT !.at = "dom"]
                  /\ session' = sess
                  /\ page' = [page EXCEPT !.steps = @ \cup {"goto"}]
                  /\ browser' = browser
             ELSE pw_except(f, browser, sess,
                            [page EXCEPT !.timed_out = TRUE], closes)
    /\ UNCHANGED cancelled
    /\ UNCHANGED Others

\* the lists of src values a DOM query can return
SrcLists == UNION {ListOfSet(S) : S \in SUBSET (URL \cup Rel)}

\* lines 223-230: the src of the video and source elements
pw_dom ==
    /\ pw.at = "dom"
    /\ \E vids \in SrcLists, ok \in BOOLEAN :
          LET add == [i \in DOMAIN vids |-> urljoin(PageUrl, vids[i])]
          IN IF ok
             THEN /\ pw' = [pw EXCEPT !.at = "click", !.sel = 1,
                                      !.clicked_any = FALSE,
                                      !.collected = @ \cup Range(add)]
                  /\ session' = [session EXCEPT !.order = Seen(@, add)]
             ELSE /\ vids = <<>>
                  /\ pw' = [pw EXCEPT !.at = "click", !.sel = 1,
                                      !.clicked_any = FALSE]
                  /\ session' = Failed(session, pw.collected)
    /\ page' = [page EXCEPT !.steps = @ \cup {"dom"}]
    /\ UNCHANGED <<browser, cancelled>>
    /\ UNCHANGED Others

\* lines 238-254: one selector of click_selectors
pw_click ==
    /\ pw.at = "click"
    /\ \E r \in {"absent", "raised", "click_failed", "clicked"}, add \in Adds :
          /\ r # "clicked" => add = <<>>
          /\ pw' = [pw EXCEPT
                      !.at = IF pw.sel = NumSelectors THEN "box" ELSE "click",
                      !.sel = IF pw.sel = NumSelectors THEN @ ELSE @ + 1,
                      !.clicked_any = @ \/ r = "clicked",
                      !.collected = @ \cup Range(add)]
          /\ page' = [page EXCEPT
                      !.steps = @ \cup {"click"},
                      !.found_any = @ \/ r \in {"click_failed", "clicked"}]
          /\ session' = IF r \in {"raised", "click_failed"}
                        THEN Failed(session, pw.collected)
                        ELSE [session EXCEPT !.order = Seen(@, add)]
    /\ UNCHANGED <<browser, cancelled>>
    /\ UNCHANGED Others

\* lines 256-271: the click on a video/player container
pw_box ==
    /\ pw.at = "box"
    /\ \E r \in {"skipped", "no_box", "raised", "click_failed", "clicked"},
          add \in Adds :
          /\ r = "skipped" <=> pw.clicked_any
          /\ r # "clicked" => add = <<>>
          /\ pw' = [pw EXCEPT !.at = "poll", !.cycle = 0,
                              !.collected = @ \cup Range(add)]
          /\ page' = [page EXCEPT
                      !.steps = @ \cup {"box"},
                      !.box_tried = r # "skipped"]
          /\ session' = IF r \in {"raised", "click_failed"}
                        THEN Failed(session, pw.collected)
                        ELSE [session EXCEPT !.order = Seen(@, add)]
    /\ UNCHANGED <<browser, cancelled>>
    /\ UNCHANGED Others

\* lines 275-307: one cycle: sleep a second, in which page scripts push n
\* entries, then read the last SliceLen entries of the buffer
pw_poll ==
    /\ pw.at = "poll"
    /\ \E n \in AppendSizes, ok \in BOOLEAN, add \in Adds :
          LET len == page.bufLen + n
              low == IF len > SliceLen THEN len - SliceLen ELSE 0
          IN /\ len <= MaxBuffer
             /\ (~ok \/ len = 0) => add = <<>>
             /\ pw' = [pw EXCEPT
                         !.at = IF pw.cycle + 1 = wait_cycles THEN "probe" ELSE "poll",
                         !.cycle = @ + 1,
                         !.collected = @ \cup Range(add)]
             /\ page' = IF ok
                        THEN [page EXCEPT !.bufLen = len, !.lastRead = len,
                                          !.missed = @ \/ low > page.lastRead,
                                          !.steps = @ \cup {"poll"}]
                        ELSE [page EXCEPT !.bufLen = len, !.poll_failed = TRUE,
                                          !.steps = @ \cup {"poll"}]
             /\ session' = IF ok THEN [session EXCEPT !.order = Seen(@, add)]
                           ELSE Failed(session, pw.collected)
    /\ UNCHANGED <<browser, cancelled>>
    /\ UNCHANGED Others

\* lines 309-330: jwplayer().getPlaylist and video.currentSrc
pw_probe ==
    /\ pw.at = "probe"
    /\ \E add \in Adds, ok \in BOOLEAN :
          /\ ~ok => add = <<>>
          /\ pw' = [pw EXCEPT !.at = "close_ctx", !.collected = @ \cup Range(add)]
          /\ session' = IF ok THEN [session EXCEPT !.order = Seen(@, add)]
                        ELSE Failed(session, pw.collected)
    /\ page' = [page EXCEPT !.steps = @ \cup {"probe"}]
    /\ UNCHANGED <<browser, cancelled>>
    /\ UNCHANGED Others

\* pw_close_context without "if collected: break"
pw_close_context_nobreak ==
    /\ pw.at = "close_ctx"
    /\ \E closes \in BOOLEAN :
          /\ browser' = [browser EXCEPT
                           !.open = IF closes THEN @ \ {pw.context} ELSE @]
          /\ session' = EndOfContext(
                            IF closes THEN session ELSE Failed(session, pw.collected),
                            pw.ctx, "normally", pw.collected)
    /\ pw' = NextContext(pw)
    /\ UNCHANGED <<page, cancelled>>
    /\ UNCHANGED Others

\* lines 332-340: context.close() in its own try, then break if anything
\* was collected
pw_close_context ==
    /\ pw.at = "close_ctx"
    /\ \E closes \in BOOLEAN :
          /\ browser' = [browser EXCEPT
                           !.open = IF closes THEN @ \ {pw.context} ELSE @]
          /\ session' = EndOfContext(
                            IF closes THEN session ELSE Failed(session, pw.collected),
                            pw.ctx, "normally", pw.collected)
    /\ pw' = IF pw.collected # {} THEN [pw EXCEPT !.at = "close_browser"]
             ELSE NextContext(pw)
    /\ UNCHANGED <<page, cancelled>>
    /\ UNCHANGED Others

\* lines 349-352: browser.close() in its own try
pw_close_browser ==
    /\ pw.at = "close_browser"
    /\ \E closes \in BOOLEAN :
          IF closes
          THEN browser' = [browser EXCEPT !.running = FALSE, !.open = {}]
               /\ session' = session
          ELSE browser' = browser
               /\ session' = Failed(session, pw.collected)
    /\ pw' = [pw EXCEPT !.at = "exit"]
    /\ UNCHANGED <<page, cancelled>>
    /\ UNCHANGED Others

\* pw_exit with a "with" block that leaves the driver and browser running
pw_exit_leaky ==
    /\ pw.at = "exit"
    /\ pw' = [pw EXCEPT !.at = "done"]
    /\ UNCHANGED <<page, browser, session, cancelled>>
    /\ UNCHANGED Others

\* lines 168, 354-355: leaving "with sync_playwright()" stops the driver and
\* with it the browser it launched; an exception that got here is dropped
pw_exit ==
    /\ pw.at = "exit"
    /\ browser' = [browser EXCEPT !.running = FALSE, !.open = {}]
    /\ pw' = [pw EXCEPT !.at = "done"]
    /\ UNCHANGED <<page, session, cancelled>>
    /\ UNCHANGED Others

\* the session as the caller of playwright_extract sees it
SessionOutcome == [failure |-> session.failure, collected |-> pw.collected]

\* the frame of playwright_extract is gone once it has returned
Returned == pw' = PwIdle /\ page' = NewPage /\ session' = NewSession

\* the frame of a fresh call: without Playwright the function returns at once
PwCalled == [PwIdle EXCEPT !.at = IF HAS_PLAYWRIGHT THEN "launch" ELSE "done"]

----------------------------------------------------------------------------
(* POST /extract *)

\* extract_validate without the "if not url" check
extract_validate_unchecked ==
    /\ pc = "idle"
    /\ \E u \in {"", PageUrl}, ex \in BOOLEAN :
          req' = [endpoint |-> "extract", url |-> u, exhaustive |-> ex]
    /\ response' = response
    /\ pc' = "x393"
    /\ attempts' = EmptyAttempts
    /\ UNCHANGED <<HAS_YTDLP, HAS_PLAYWRIGHT, first, pw, page, browser, session, cancelled,
                 stream, log>>

\* lines 385-390: read the body, reject a missing url, create attempts
extract_validate ==
    /\ pc = "idle"
    /\ \E u \in {"", PageUrl}, ex \in BOOLEAN :
          /\ req' = [endpoint |-> "extract", url |-> u, exhaustive |-> ex]
          /\ IF u = ""
             THEN response' = MissingUrl /\ pc' = "returned"
             ELSE response' = response /\ pc' = "x393"
    /\ attempts' = EmptyAttempts
    /\ UNCHANGED <<HAS_YTDLP, HAS_PLAYWRIGHT, first, pw, page, browser, session, cancelled,
                 stream, log>>

\* extract_step without the early return: every strategy runs
extract_step_nostop(s, o, e, next) ==
    /\ log' = log \o <<CallEv(s), RetEv(s, e, o.urls)>>
    /\ attempts' = [attempts EXCEPT ![s] = o.urls]
    /\ response' = response
    /\ pc' = next

\* extract_step with the yt-dlp and the Playwright blocks in each other's place
extract_step_swapped(s, o, e, next) ==
    /\ log' = log \o <<CallEv(s), RetEv(s, e, o.urls)>>
    /\ attempts' = [attempts EXCEPT ![s] = o.urls]
    /\ IF o.urls # <<>>
       THEN response' = ExtractionResult(s, o.urls, attempts') /\ pc' = "returned"
       ELSE /\ response' = response
            /\ pc' = CASE next = "x399" -> "x405"
                       [] s = "playwright" -> "x399"
                       [] s = "yt_dlp" -> "x415"
                       [] OTHER -> next

\* one strategy step of extract: record the list, return on the first
\* non-empty one, otherwise go on to the statement at `next`
extract_step(s, o, e, next) ==
    IF o.raised
    THEN /\ log' = log \o <<CallEv(s), RaiseEv(s, e)>>
         /\ response' = Unhandled
         /\ pc' = "returned"
         /\ attempts' = attempts
    ELSE /\ log' = log \o <<CallEv(s), RetEv(s, e, o.urls)>>
         /\ attempts' = [attempts EXCEPT ![s] = o.urls]
         /\ IF o.urls # <<>>
            THEN response' = ExtractionResult(s, o.urls, attempts') /\ pc' = "returned"
            ELSE response' = response /\ pc' = next

\* lines 392-396
extract_basic ==
    /\ pc = "x393"
    /\ \E r \in GetOutcome : \E o \in simple_http_extract(r) :
          extract_step("basic", o, StaticErr(r), "x399")
    /\ UNCHANGED <<HAS_YTDLP, HAS_PLAYWRIGHT, first, pw, page, browser, session, cancelled,
                 req, stream>>

\* lines 398-402
extract_yt_dlp ==
    /\ pc = "x399"
    /\ \E g \in ProcG, j \in ProcJ :
          extract_step("yt_dlp", yt_dlp_extract(g, j), YtDlpErr(g, j), "x405")
    /\ UNCHANGED <<HAS_YTDLP, HAS_PLAYWRIGHT, first, pw, page, browser, session, cancelled,
                 req, stream>>

\* lines 405-407: extract enters playwright_extract
extract_playwright_call ==
    /\ pc = "x405"
    /\ pc' = "x407"
    /\ pw' = PwCalled
    /\ page' = NewPage
    /\ browser' = NoBrowser
    /\ session' = NewSession
    /\ UNCHANGED <<HAS_YTDLP, HAS_PLAYWRIGHT, first, req, attempts, response, stream,
                   log, cancelled>>

\* lines 404-412: playwright_extract returns; the call sits in try/except,
\* an exception gives plinks = []
extract_playwright ==
    /\ pc = "x407"
    /\ pw.at = "done"
    /\ \E b \in BrowserOutcome : \E o \in playwright_extract(b) :
          /\ b = SessionOutcome
          /\ extract_step("playwright", IF o.raised THEN Ret(<<>>) ELSE o,
                          BrowserErr(b), "x415")
    /\ Returned
    /\ UNCHANGED <<HAS_YTDLP, HAS_PLAYWRIGHT, first, browser, cancelled, req, stream>>

\* lines 404-412 with the call as one step: the session is summed up by its
\* BrowserOutcome
extract_playwright_session ==
    /\ pc = "x405"
    /\ \E b \in BrowserOutcome : \E o \in playwright_extract(b) :
          extract_step("playwright", IF o.raised THEN Ret(<<>>) ELSE o,
                       BrowserErr(b), "x415")
    /\ UNCHANGED <<HAS_YTDLP, HAS_PLAYWRIGHT, first, pw, page, browser, session,
                   cancelled, req, stream>>

\* extract_fallback without its "if fall": the last strategy is always the method
extract_fallback_noguard ==
    /\ pc = "x415"
    /\ \E r \in GetOutcome :
          LET fall == IF r.raised THEN <<>> ELSE fallback_regex(r)
          IN /\ log' = log \o <<CallEv("fallback_regex"),
                                RetEv("fallback_regex", StaticErr(r), fall)>>
             /\ attempts' = [attempts EXCEPT !["fallback_regex"] = fall]
             /\ response' = ExtractionResult("fallback_regex", fall, attempts')
             /\ pc' = "returned"
    /\ UNCHANGED <<HAS_YTDLP, HAS_PLAYWRIGHT, first, pw, page, browser, session, cancelled,
                 req, stream>>

\* lines 414-425: second fetch and fallback_regex inside try/except; the
\* last strategy falls through to the "nothing found" return
extract_fallback ==
    /\ pc = "x415"
    /\ \E r \in GetOutcome :
          LET fall == IF r.raised THEN <<>> ELSE fallback_regex(r)
          IN /\ log' = log \o <<CallEv("fallback_regex"),
                                RetEv("fallback_regex", StaticErr(r), fall)>>
             /\ attempts' = [attempts EXCEPT !["fallback_regex"] = fall]
             /\ response' = IF fall # <<>>
                            THEN ExtractionResult("fallback_regex", fall, attempts')
                            ELSE ExtractionResult("none", <<>>, attempts')
             /\ pc' = "returned"
    /\ UNCHANGED <<HAS_YTDLP, HAS_PLAYWRIGHT, first, pw, page, browser, session, cancelled,
                 req, stream>>

----------------------------------------------------------------------------
(* GET /extract_stream_sse *)

\* the generator suspends at a yield: the event joins the stream
Yield(k, s, before) ==
    /\ stream' = Append(stream, Event(k, s))
    /\ log' = log \o before \o <<YieldEv(k, s)>>

\* lines 428-433, 506: a missing url answers with the ev_none generator,
\* a present one with event_generator; neither has run a statement yet
extract_stream_sse ==
    /\ pc = "idle"
    /\ \E u \in {"", PageUrl}, ex \in BOOLEAN :
          /\ req' = [endpoint |-> "extract_stream_sse", url |-> u, exhaustive |-> ex]
          /\ pc' = IF u = "" THEN "e_new" ELSE "g_new"
    /\ UNCHANGED <<HAS_YTDLP, HAS_PLAYWRIGHT, first, pw, page, browser, session, cancelled,
                 attempts, response, stream, log>>

\* line 431
ev_none_error ==
    /\ pc = "e_new"
    /\ Yield("missing_url", "-", <<>>)
    /\ response' = MissingUrl
    /\ pc' = "e431"
    /\ UNCHANGED <<HAS_YTDLP, HAS_PLAYWRIGHT, first, pw, page, browser, session, cancelled,
                 req, attempts>>

\* line 432
ev_none_done ==
    /\ pc = "e431"
    /\ Yield("DONE", "-", <<>>)
    /\ pc' = "e432"
    /\ UNCHANGED <<HAS_YTDLP, HAS_PLAYWRIGHT, first, pw, page, browser, session, cancelled,
                 req, attempts, response>>

\* the generator function ends: StopIteration
ev_none_return ==
    /\ pc = "e432"
    /\ pc' = "closed"
    /\ UNCHANGED <<HAS_YTDLP, HAS_PLAYWRIGHT, first, pw, page, browser, session, cancelled,
                 req, attempts, response, stream, log>>

\* lines 436-437
gen_start ==
    /\ pc = "g_new"
    /\ attempts' = EmptyAttempts
    /\ Yield("entry", "basic", <<>>)
    /\ pc' = "L437"
    /\ UNCHANGED <<HAS_YTDLP, HAS_PLAYWRIGHT, first, pw, page, browser, session, cancelled,
                 req, response>>

\* gen_step that says nothing when the strategy found no links
gen_step_silent(s, o, e, found, nolinks, error) ==
    IF o.raised
    THEN /\ attempts' = attempts
         /\ Yield("error", s, <<CallEv(s), RaiseEv(s, e)>>)
         /\ pc' = error
    ELSE /\ attempts' = [attempts EXCEPT ![s] = o.urls]
         /\ IF o.urls # <<>>
            THEN Yield("found", s, <<CallEv(s), RetEv(s, e, o.urls)>>) /\ pc' = found
            ELSE /\ stream' = stream
                 /\ log' = log \o <<CallEv(s), RetEv(s, e, o.urls)>>
                 /\ pc' = nolinks

\* gen_step that tries a failed strategy again
gen_step_retry(s, o, e, found, nolinks, error) ==
    IF o.raised
    THEN /\ attempts' = attempts
         /\ Yield("error", s, <<CallEv(s), RaiseEv(s, e)>>)
         /\ pc' = pc
    ELSE /\ attempts' = [attempts EXCEPT ![s] = o.urls]
         /\ IF o.urls # <<>>
            THEN Yield("found", s, <<CallEv(s), RetEv(s, e, o.urls)>>) /\ pc' = found
            ELSE /\ Yield("nolinks", s, <<CallEv(s), RetEv(s, e, o.urls)>>)
                 /\ pc' = IF e \in StrategyFailures THEN pc ELSE nolinks

\* one try block of event_generator: call the strategy, record its list,
\* and run to the next yield: ACHOU, (nenhum link ...) or Erro ...
gen_step(s, o, e, found, nolinks, error) ==
    IF o.raised
    THEN /\ attempts' = attempts
         /\ Yield("error", s, <<CallEv(s), RaiseEv(s, e)>>)
         /\ pc' = error
    ELSE /\ attempts' = [attempts EXCEPT ![s] = o.urls]
         /\ IF o.urls # <<>>
            THEN Yield("found", s, <<CallEv(s), RetEv(s, e, o.urls)>>) /\ pc' = found
            ELSE Yield("nolinks", s, <<CallEv(s), RetEv(s, e, o.urls)>>) /\ pc' = nolinks

\* an "if HAS_X:" of event_generator: announce the strategy or its absence
gen_entry(s, has, entered, absent) ==
    IF has
    THEN Yield("entry", s, <<>>) /\ pc' = entered
    ELSE Yield("unavailable", s, <<>>) /\ pc' = absent

\* lines 438-449
gen_basic ==
    /\ pc = "L437"
    /\ \E r \in GetOutcome : \E o \in simple_http_extract(r) :
          gen_step("basic", o, StaticErr(r), "L442", "L447", "L449")
    /\ UNCHANGED <<HAS_YTDLP, HAS_PLAYWRIGHT, first, pw, page, browser, session, cancelled,
                 req, response>>

\* lines 452-453, 466-467
gen_yt_dlp_entry ==
    /\ pc \in {"L447", "L449"}
    /\ gen_entry("yt_dlp", HAS_YTDLP, "L453", "L467")
    /\ UNCHANGED <<HAS_YTDLP, HAS_PLAYWRIGHT, first, pw, page, browser, session, cancelled,
                 req, attempts, response>>

\* lines 454-465
gen_yt_dlp ==
    /\ pc = "L453"
    /\ \E g \in ProcG, j \in ProcJ :
          gen_step("yt_dlp", yt_dlp_extract(g, j), YtDlpErr(g, j),
                   "L458", "L463", "L465")
    /\ UNCHANGED <<HAS_YTDLP, HAS_PLAYWRIGHT, first, pw, page, browser, session, cancelled,
                 req, response>>

\* lines 470-471, 484-485
gen_playwright_entry ==
    /\ pc \in {"L463", "L465", "L467"}
    /\ gen_entry("playwright", HAS_PLAYWRIGHT, "L471", "L485")
    /\ UNCHANGED <<HAS_YTDLP, HAS_PLAYWRIGHT, first, pw, page, browser, session, cancelled,
                 req, attempts, response>>

\* lines 472-473: the generator enters playwright_extract
gen_playwright_call ==
    /\ pc = "L471"
    /\ pc' = "L473"
    /\ pw' = PwCalled
    /\ page' = NewPage
    /\ browser' = NoBrowser
    /\ session' = NewSession
    /\ UNCHANGED <<HAS_YTDLP, HAS_PLAYWRIGHT, first, req, attempts, response, stream,
                   log, cancelled>>

\* a generator is closed only where it is suspended: a resumption that
\* was running when the client left ends at its next yield
Resume(label) == IF cancelled THEN "cancelled" ELSE label

\* client_disconnect that drops a resumption busy inside playwright_extract
client_disconnect_abandon ==
    /\ req.endpoint = "extract_stream_sse"
    /\ ~cancelled
    /\ pc \notin {"idle", "closed", "cancelled"}
    /\ cancelled' = TRUE
    /\ pc' = "cancelled"
    /\ UNCHANGED <<HAS_YTDLP, HAS_PLAYWRIGHT, first, req, attempts, response, stream,
                   log, pw, page, browser, session>>

\* the client closes the connection.  A suspended generator is closed where
\* it stands; a resumption busy inside playwright_extract (a blocking call
\* of this thread) runs on to its yield
client_disconnect ==
    /\ req.endpoint = "extract_stream_sse"
    /\ ~cancelled
    /\ pc \notin {"idle", "closed", "cancelled"}
    /\ cancelled' = TRUE
    /\ pc' = IF pc = "L473" THEN pc ELSE "cancelled"
    /\ UNCHANGED <<HAS_YTDLP, HAS_PLAYWRIGHT, first, req, attempts, response, stream,
                   log, pw, page, browser, session>>

\* lines 472-483: playwright_extract returns
gen_playwright ==
    /\ pc = "L473"
    /\ pw.at = "done"
    /\ \E b \in BrowserOutcome : \E o \in playwright_extract(b) :
          /\ b = SessionOutcome
          /\ gen_step("playwright", o, BrowserErr(b),
                      Resume("L476"), Resume("L481"), Resume("L483"))
    /\ Returned
    /\ UNCHANGED <<HAS_YTDLP, HAS_PLAYWRIGHT, first, browser, cancelled, req, response>>

\* lines 472-483 with the call as one step: the session is summed up by its
\* BrowserOutcome
gen_playwright_session ==
    /\ pc = "L471"
    /\ \E b \in BrowserOutcome : \E o \in playwright_extract(b) :
          gen_step("playwright", o, BrowserErr(b), "L476", "L481", "L483")
    /\ UNCHANGED <<HAS_YTDLP, HAS_PLAYWRIGHT, first, pw, page, browser, session,
                   cancelled, req, response>>

\* line 488
gen_fallback_entry ==
    /\ pc \in {"L481", "L483", "L485"}
    /\ gen_entry("fallback_regex", TRUE, "L488", "L488")
    /\ UNCHANGED <<HAS_YTDLP, HAS_PLAYWRIGHT, first, pw, page, browser, session, cancelled,
                 req, attempts, response>>

\* lines 489-501: the fetch is part of the try block, a failed fetch leaves
\* attempts["fallback_regex"] as it was and yields Erro fallback
gen_fallback ==
    /\ pc = "L488"
    /\ \E r \in GetOutcome :
          gen_step("fallback_regex",
                   IF r.raised THEN Raise ELSE Ret(fallback_regex(r)),
                   StaticErr(r), "L494", "L499", "L501")
    /\ UNCHANGED <<HAS_YTDLP, HAS_PLAYWRIGHT, first, pw, page, browser, session, cancelled,
                 req, response>>

\* FoundAt with the Playwright block reporting the yt-dlp list
FoundAt_pasted ==
    [L442 |-> "basic", L458 |-> "yt_dlp", L476 |-> "yt_dlp",
     L494 |-> "fallback_regex"]

\* the strategy whose ACHOU event the generator is suspended at
FoundAt ==
    [L442 |-> "basic", L458 |-> "yt_dlp", L476 |-> "playwright",
     L494 |-> "fallback_regex"]

\* gen_found_result reporting no attempts
gen_found_result_bare ==
    /\ pc \in {"L442", "L458", "L476", "L494"}
    /\ LET m == FoundAt[pc]
       IN /\ response' = ExtractionResult(m, attempts[m], EmptyAttempts)
          /\ Yield("result", m, <<>>)
    /\ pc' = "L_result"
    /\ UNCHANGED <<HAS_YTDLP, HAS_PLAYWRIGHT, first, pw, page, browser, session, cancelled,
                 req, attempts>>

\* lines 443, 459, 477, 495: the 'done' event of the strategy that found links
gen_found_result ==
    /\ pc \in {"L442", "L458", "L476", "L494"}
    /\ LET m == FoundAt[pc]
       IN /\ response' = ExtractionResult(m, attempts[m], attempts)
          /\ Yield("result", m, <<>>)
    /\ pc' = "L_result"
    /\ UNCHANGED <<HAS_YTDLP, HAS_PLAYWRIGHT, first, pw, page, browser, session, cancelled,
                 req, attempts>>

\* line 503: the 'done' event when nothing was found
gen_none_result ==
    /\ pc \in {"L499", "L501"}
    /\ response' = ExtractionResult("none", <<>>, attempts)
    /\ Yield("result", "none", <<>>)
    /\ pc' = "L_result"
    /\ UNCHANGED <<HAS_YTDLP, HAS_PLAYWRIGHT, first, pw, page, browser, session, cancelled,
                 req, attempts>>

\* lines 444, 460, 478, 496, 504: data: [DONE]
gen_done ==
    /\ pc = "L_result"
    /\ Yield("DONE", "-", <<>>)
    /\ pc' = "L_done"
    /\ UNCHANGED <<HAS_YTDLP, HAS_PLAYWRIGHT, first, pw, page, browser, session, cancelled,
                 req, attempts, response>>

\* gen_return without the return statement: the generator runs on
gen_return_missing ==
    /\ pc = "L_done"
    /\ pc' = "L447"
    /\ UNCHANGED <<HAS_YTDLP, HAS_PLAYWRIGHT, first, pw, page, browser, session, cancelled,
                 req, attempts, response, stream, log>>

\* lines 445, 461, 479, 497 and the end of the function: StopIteration
gen_return ==
    /\ pc = "L_done"
    /\ pc' = "closed"
    /\ UNCHANGED <<HAS_YTDLP, HAS_PLAYWRIGHT, first, pw, page, browser, session, cancelled,
                 req, attempts, response, stream, log>>

----------------------------------------------------------------------------

Next ==
    \/ extract_validate
    \/ extract_basic
    \/ extract_yt_dlp
    \/ extract_playwright_call
    \/ extract_playwright
    \/ extract_fallback
    \/ extract_stream_sse
    \/ ev_none_error
    \/ ev_none_done
    \/ ev_none_return
    \/ gen_start
    \/ gen_basic
    \/ gen_yt_dlp_entry
    \/ gen_yt_dlp
    \/ gen_playwright_entry
    \/ gen_playwright_call
    \/ gen_playwright
    \/ client_disconnect
    \/ pw_launch
    \/ pw_new_context
    \/ pw_goto
    \/ pw_dom
    \/ pw_click
    \/ pw_box
    \/ pw_poll
    \/ pw_probe
    \/ pw_close_context
    \/ pw_close_browser
    \/ pw_exit
    \/ gen_fallback_entry
    \/ gen_fallback
    \/ gen_found_result
    \/ gen_none_result
    \/ gen_done
    \/ gen_return

Spec == Init /\ [][Next]_vars

----------------------------------------------------------------------------
(* The same url asked of both endpoints: POST /extract, then               *)
(* GET /extract_stream_sse, with each strategy doing the second time what   *)
(* it did the first time.                                                   *)

\* lines 427-433, 506: after extract has answered, the same url is asked of
\* extract_stream_sse; the answer and the history of the first request are
\* kept in `first`
second_request ==
    /\ pc = "returned"
    /\ ~first.done
    /\ first' = [done |-> TRUE, response |-> response, log |-> log]
    /\ req' = [req EXCEPT !.endpoint = "extract_stream_sse"]
    /\ pc' = IF req.url = "" THEN "e_new" ELSE "g_new"
    /\ attempts' = EmptyAttempts
    /\ response' = NoResponse
    /\ stream' = <<>>
    /\ log' = <<>>
    /\ UNCHANGED <<HAS_YTDLP, HAS_PLAYWRIGHT, pw, page, browser, session, cancelled>>

\* a strategy called in both requests ended the same way in both: the same
\* failure, or none, and the same list (extract records a failed fetch of
\* its fallback as [], event_generator as an exception)
Replay ==
    \A i \in DOMAIN log :
        (/\ log[i].ev \in {"ret", "raise"}
         /\ \E k \in DOMAIN first.log :
               first.log[k].ev = "call" /\ first.log[k].s = log[i].s)
        => \E k \in DOMAIN first.log :
              /\ first.log[k].ev \in {"ret", "raise"}
              /\ first.log[k].s = log[i].s
              /\ first.log[k].err = log[i].err
              /\ first.log[k].urls = log[i].urls

NextPair ==
    \/ extract_validate /\ Replay'
    \/ extract_basic /\ Replay'
    \/ extract_yt_dlp /\ Replay'
    \/ extract_playwright_session /\ Replay'
    \/ extract_fallback /\ Replay'
    \/ second_request /\ Replay'
    \/ ev_none_error /\ Replay'
    \/ ev_none_done /\ Replay'
    \/ ev_none_return /\ Replay'
    \/ gen_start /\ Replay'
    \/ gen_basic /\ Replay'
    \/ gen_yt_dlp_entry /\ Replay'
    \/ gen_yt_dlp /\ Replay'
    \/ gen_playwright_entry /\ Replay'
    \/ gen_playwright_session /\ Replay'
    \/ gen_fallback_entry /\ Replay'
    \/ gen_fallback /\ Replay'
    \/ gen_found_result /\ Replay'
    \/ gen_none_result /\ Replay'
    \/ gen_done /\ Replay'
    \/ gen_return /\ Replay'

SpecPair == Init /\ [][NextPair]_vars

\* the handler has answered: extract returned, or the generator is exhausted
Terminal == pc \in {"returned", "closed"}

----------------------------------------------------------------------------
(* Reading the history *)

Calls == {i \in DOMAIN log : log[i].ev = "call"}

Returns == {i \in DOMAIN log : log[i].ev = "ret"}

\* the calls that ended, by a return or by an exception
Ends == {i \in DOMAIN log : log[i].ev \in {"ret", "raise"}}

Yields == {i \in DOMAIN log : log[i].ev = "yield"}

Invoked(s) == \E i \in Calls : log[i].s = s

Earlier(s, t) == Index(s) < Index(t)

----------------------------------------------------------------------------
(* C1..C10: the orchestration contract *)

\* C1: stop-on-success.  In a run without the exhaustive option, once a
\* strategy has returned a non-empty list nothing but the announcement of
\* the find, the result and the completion marker follows: no strategy is
\* called, announced or reported after it, and the answer, once there, names
\* that strategy as the method.
C1_StopOnSuccess ==
    ~req.exhaustive =>
        \A i \in Returns : log[i].urls # <<>> =>
            /\ \A k \in DOMAIN log : k > i =>
                  /\ log[k].ev = "yield"
                  /\ log[k].kind \in {"found", "result", "DONE"}
            /\ \A t \in StrategySet : Earlier(log[i].s, t) => ~Invoked(t)
            /\ pc \in {"returned", "L442", "L458", "L476", "L494",
                       "L_result", "L_done", "closed", "cancelled"}
            /\ Terminal => response.kind = "result" /\ response.method = log[i].s

\* C1 witness: a streaming run ended after yt_dlp found links; the browser
\* and the fallback were never tried
C1_Witness ==
    /\ pc = "closed"
    /\ ~req.exhaustive
    /\ response.method = "yt_dlp"
    /\ Invoked("basic") /\ Invoked("yt_dlp")
    /\ ~Invoked("playwright") /\ ~Invoked("fallback_regex")

\* C2: in every ExtractionResult, of either handler, method is "none"
\* exactly when links is empty.
C2_NoneIffEmpty ==
    response.kind = "result" =>
        (response.method = "none" <=> response.links = <<>>)

\* C2 witness: both handlers' results, one with links and one without
C2_Witness ==
    /\ Terminal
    /\ response.kind = "result"
    /\ \/ req.endpoint = "extract" /\ response.method = "none"
          /\ response.links = <<>>
       \/ req.endpoint = "extract_stream_sse" /\ response.method # "none"
          /\ response.links # <<>>
    /\ Invoked("fallback_regex")

\* C3: in every ExtractionResult method is "none", or it is the name of
\* the first record of the attempts (in the order basic, yt_dlp, playwright,
\* fallback_regex) whose list is non-empty, links is that list, and every
\* record before it is empty.
C3_MethodIsFirstNonEmpty ==
    response.kind = "result" =>
        \/ response.method = "none"
        \/ /\ response.method \in StrategySet
           /\ response.attempts[response.method] # <<>>
           /\ response.links = response.attempts[response.method]
           /\ \A t \in StrategySet :
                 Earlier(t, response.method) => response.attempts[t] = <<>>

\* C3 witness: the browser strategy is the first with links
C3_Witness ==
    /\ Terminal
    /\ response.kind = "result"
    /\ response.method = "playwright"
    /\ response.attempts["basic"] = <<>>
    /\ response.attempts["yt_dlp"] = <<>>
    /\ Len(response.links) = 2

\* C4: strategies run in the fixed order basic, yt_dlp, playwright,
\* fallback_regex.  The calls of a run appear in that order; when a strategy
\* is called, every call made before it has ended; a strategy an
\* earlier one overtook is never called later (a streaming run passes over
\* a strategy whose capability is absent); and each record holds what its
\* strategy's call returned, so a record is filled only once its strategy
\* and all strategies called before it are through.
C4_FixedOrder ==
    /\ \A i, k \in Calls : i < k => Earlier(log[i].s, log[k].s)
    /\ \A k \in Calls : \A i \in Calls :
          i < k => \E e \in Ends : i < e /\ e < k /\ log[e].s = log[i].s
    /\ \A e \in Returns : attempts[log[e].s] = log[e].urls
    /\ \A s \in StrategySet : attempts[s] # <<>> => \E e \in Returns : log[e].s = s

\* C4 witness: all four strategies ran, none found anything
C4_Witness ==
    /\ Terminal
    /\ Cardinality(Calls) = 4
    /\ response.method = "none"

EventsOf(k) == {i \in DOMAIN stream : stream[i].kind = k}

\* C6: a streaming run for a url yields a finite sequence with at most one
\* ExtractionResult and at most one completion marker; the marker comes
\* right after the result and is the last event; an exhausted generator has
\* yielded exactly one result followed by the marker.
C6_ResultThenDone ==
    (req.endpoint = "extract_stream_sse" /\ req.url # "") =>
        /\ Len(stream) <= 2 * Len(Strategies) + 2
        /\ Cardinality(EventsOf("result")) <= 1
        /\ Cardinality(EventsOf("DONE")) <= 1
        /\ \A i \in EventsOf("DONE") :
              i = Len(stream) /\ i > 1 /\ stream[i - 1].kind = "result"
        /\ \A i \in EventsOf("result") : i >= Len(stream) - 1
        /\ pc = "closed" =>
              /\ Cardinality(EventsOf("result")) = 1
              /\ stream[Len(stream)].kind = "DONE"

\* C6 witness: the generator is exhausted after the fallback fetch raised
C6_Witness ==
    /\ pc = "closed"
    /\ req.url # ""
    /\ \E i \in DOMAIN log : log[i].ev = "raise" /\ log[i].s = "fallback_regex"
    /\ Len(stream) > 2

\* the events of the stream are the yields of the history, in their order
YieldsInOrder ==
    /\ Len(stream) = Cardinality(Yields)
    /\ \A n \in DOMAIN stream :
          \E i \in Yields :
             /\ Cardinality({j \in Yields : j <= i}) = n
             /\ stream[n] = Event(log[i].kind, log[i].s)

\* C7: in a streaming run every strategy call is announced by an entry
\* event yielded right before the call, and followed, before anything else
\* happens, by its completion event: found, no links or error.  The stream
\* holds the events in the order they were yielded.
C7_EntryAndCompletion ==
    req.endpoint = "extract_stream_sse" =>
        /\ \A i \in Calls :
              /\ i > 1
              /\ log[i - 1] = YieldEv("entry", log[i].s)
              /\ Len(log) >= i + 2
              /\ log[i + 1].s = log[i].s
              /\ log[i + 1].ev \in {"ret", "raise"}
              /\ log[i + 2].ev = "yield"
              /\ log[i + 2].s = log[i].s
              /\ log[i + 2].kind =
                    IF log[i + 1].ev = "raise" THEN "error"
                    ELSE IF log[i + 1].urls # <<>> THEN "found" ELSE "nolinks"
        /\ YieldsInOrder

\* C7 witness: three strategies ran and reported before the generator ended
C7_Witness ==
    /\ pc = "closed"
    /\ req.endpoint = "extract_stream_sse"
    /\ Cardinality(Calls) >= 3
    /\ Cardinality(EventsOf("nolinks")) >= 2
    /\ Cardinality(EventsOf("found")) = 1

\* C8: no retry.  In one run each strategy is called at most once, and the
\* call of a strategy that timed out or failed is its only one: its record
\* is the empty list and the run has moved on.
C8_NoRetry ==
    /\ \A i, k \in Calls : log[i].s = log[k].s => i = k
    /\ \A i \in Ends : log[i].err \in StrategyFailures =>
          /\ attempts[log[i].s] = <<>>
          /\ Cardinality({k \in Calls : log[k].s = log[i].s}) = 1
          /\ pc \notin {"x393", "L437"}
          /\ log[i].s = "yt_dlp" => pc \notin {"x399", "L453"}
          /\ log[i].s = "playwright" =>
                pc \notin {"x399", "L453", "x405", "L471", "x407", "L473"}
          /\ log[i].s = "fallback_regex" =>
                pc \in {"returned", "L501", "L499", "L_result", "L_done",
                        "closed", "cancelled"}

\* C8 witness: the delegate timed out in a streaming run that went on
C8_Witness ==
    /\ req.endpoint = "extract_stream_sse"
    /\ \E i \in Ends : log[i].s = "yt_dlp" /\ log[i].err = "timeout"
    /\ Invoked("playwright")
    /\ Terminal

\* the attempt lists of a result, one after the other in strategy order
RECURSIVE Union(_, _)
Union(r, n) ==
    IF n = 0 THEN <<>> ELSE Union(r, n - 1) \o r.attempts[Strategies[n]]

\* C9: with exhaustive = true all four strategies run, also after one has
\* found links, and links is the de-duplicated union of the attempt lists in
\* strategy order.
C9_ExhaustiveUnion ==
    (Terminal /\ req.exhaustive /\ response.kind = "result") =>
        /\ \A s \in StrategySet : Invoked(s)
        /\ response.links = dict_fromkeys(Union(response, Len(Strategies)))

\* the fetch of the given strategy failed in this run
FetchFailed(s) == \E i \in Ends : log[i].s = s /\ log[i].err = "network"

\* C10: when the static fetch and the fallback fetch both fail and the
\* delegate and the browser find nothing, the result has method "none", no
\* links and four empty attempt lists, and the records of basic and
\* fallback_regex carry an error note.
C10_UnreachableTarget ==
    (Terminal /\ response.kind = "result"
       /\ FetchFailed("basic") /\ FetchFailed("fallback_regex")
       /\ \A i \in Returns :
             log[i].s \in {"yt_dlp", "playwright"} => log[i].urls = <<>>) =>
        /\ response.method = "none"
        /\ response.links = <<>>
        /\ \A s \in StrategySet : AttemptRecord(response, s).urls = <<>>
        /\ AttemptRecord(response, "basic").error # "-"
        /\ AttemptRecord(response, "fallback_regex").error # "-"

----------------------------------------------------------------------------
(* C11..C20 *)

\* C11: a request without a url (missing or empty) is answered with the
\* error {"error": "missing url"} (extract: status 400; extract_stream_sse:
\* an error event and the completion marker), never with an
\* ExtractionResult, and no strategy is called or announced.
C11_MissingUrl ==
    (req.endpoint # "-" /\ req.url = "") =>
        /\ response.kind \in {"-", "error"}
        /\ response # ExtractionResult("none", <<>>, EmptyAttempts)
        /\ Terminal => response = MissingUrl
        /\ Calls = {} /\ Ends = {}
        /\ \A i \in DOMAIN stream : stream[i].kind \in {"missing_url", "DONE"}
        /\ pc = "closed" => stream = <<Event("missing_url", "-"), Event("DONE", "-")>>

\* C11 witness: both the event stream and the handler ended on a missing url
C11_Witness ==
    /\ Terminal
    /\ req.url = ""
    /\ response = MissingUrl
    /\ req.endpoint = "extract_stream_sse" => Len(stream) = 2

NoDuplicates(q) == \A i, k \in DOMAIN q : q[i] = q[k] => i = k

\* C12: no URL list a strategy returned, and so no attempt list and no
\* links list of a result, holds the same URL twice.
C12_NoDuplicateUrls ==
    /\ \A i \in Returns : NoDuplicates(log[i].urls)
    /\ \A s \in StrategySet : NoDuplicates(attempts[s])
    /\ NoDuplicates(response.links)
    /\ \A s \in StrategySet : NoDuplicates(response.attempts[s])

Manifest == {"https://cdn/a.m3u8"}

\* q lists manifests before progressive files, and the URLs of each group
\* in the order of `order`
ManifestFirst(q) ==
    \A i, k \in DOMAIN q : (q[i] \notin Manifest /\ q[k] \in Manifest) => k < i

Position(order, u) == CHOOSE i \in DOMAIN order : order[i] = u

InObservedOrder(q, order) ==
    \A i, k \in DOMAIN q :
        (i < k /\ (q[i] \in Manifest <=> q[k] \in Manifest)) =>
            Position(order, q[i]) < Position(order, q[k])

\* C13: every list playwright_extract can return for a session has its
\* playlist manifests (.m3u8) before its progressive files (.mp4) and, within
\* each group, the URLs in the order the session first observed them.
C13_ManifestFirstThenObserved ==
    pw.at = "done" =>
        \A o \in playwright_extract(SessionOutcome) :
            ManifestFirst(o.urls) /\ InObservedOrder(o.urls, session.order)

BrowserClosed == ~browser.running /\ browser.open = {}

\* C14: whenever playwright_extract has returned, or is about to, after a
\* clean run or after an exception at any step, the browser it launched is
\* stopped and none of the contexts it opened is open.
C14_TeardownUnconditional ==
    pw.at \in {"idle", "done"} => BrowserClosed

\* C14 witness: a session that opened both contexts and met an exception has
\* ended with everything closed
C14_Witness ==
    /\ pw.at = "done"
    /\ session.failure = "step"
    /\ browser.opened = <<1, 2>>
    /\ BrowserClosed

\* C15: once the client of a streaming run has left, a browser or context
\* is open only while playwright_extract is still running towards its
\* teardown; the closed generator leaves nothing open.
C15_CancelStillTearsDown ==
    cancelled =>
        /\ pc = "cancelled" => BrowserClosed
        /\ ~BrowserClosed => (pc = "L473" /\ pw.at \notin {"idle", "done"})

\* C15 witness: a session that had a context open when the client left has
\* been torn down before the generator is closed
C15_Witness ==
    /\ cancelled
    /\ pc = "L473"
    /\ pw.at = "done"
    /\ browser.opened # <<>>
    /\ BrowserClosed

\* C16: playwright_extract never raises to its caller, and every URL that
\* was in `collected` when an exception occurred inside it is in the list it
\* returns.
C16_ReturnsCollectedOnFailure ==
    /\ \A i \in DOMAIN log : ~(log[i].ev = "raise" /\ log[i].s = "playwright")
    /\ pw.at = "done" =>
          \A o \in playwright_extract(SessionOutcome) :
              ~o.raised /\ session.saved \subseteq Range(o.urls)

\* C16 witness: a session that failed after it had collected a URL is over
C16_Witness ==
    /\ pw.at = "done"
    /\ session.failure = "step"
    /\ session.saved # {}

\* the loop over contexts is done with the page of `page`
LeftPage == pw.at \in {"new_context", "close_browser", "exit", "done"}

\* C17: when page.goto timed out on a page, the DOM query, the clicks, the
\* buffer polls and the player probes have still been run on that page by
\* the time the engine leaves it.
C17_TimeoutNotFatal ==
    (page.timed_out /\ LeftPage) =>
        {"dom", "click", "poll", "probe"} \subseteq page.steps

\* C18: when the polls of a page are over and none of them failed, every
\* entry the page pushed into the buffer has been read by some poll.
C18_EveryEntryRead ==
    (pw.at = "probe" /\ ~page.poll_failed) =>
        (~page.missed /\ page.lastRead = page.bufLen)

\* C19: after the click heuristics of a page, the click on a video/player
\* container has been attempted exactly when no selector of click_selectors
\* matched an element (a click that fails does not end the run: the polls
\* follow).
C19_ContainerClickIffNothingFound ==
    (pw.at = "poll" /\ pw.cycle = 0) =>
        (page.box_tried <=> ~page.found_any)

\* both requests for the url have been answered
PairDone == first.done /\ pc = "closed"

InvokedIn(l) == {l[i].s : i \in {k \in DOMAIN l : l[k].ev = "call"}}

Capability(s) ==
    CASE s = "yt_dlp" -> HAS_YTDLP
      [] s = "playwright" -> HAS_PLAYWRIGHT
      [] OTHER -> TRUE

SameResult ==
    /\ response.kind = first.response.kind
    /\ response.method = first.response.method
    /\ response.links = first.response.links
    /\ response.attempts = first.response.attempts

\* C20 as stated: for the same url, flags and strategy outcomes, the result
\* of extract_stream_sse has the method, links and attempts of the result of
\* extract, and both called the same strategies.
C20_SameResultSameCalls ==
    PairDone => (SameResult /\ InvokedIn(log) = InvokedIn(first.log))

\* C20 amended: for the same url, flags and strategy outcomes, the result of
\* extract_stream_sse has the method, links and attempts of the result of
\* extract; extract_stream_sse calls no strategy that extract did not call,
\* and the strategies only extract called are those whose capability flag
\* is off (extract calls them and gets [] at once, extract_stream_sse skips
\* the call).
C20_SameResult ==
    PairDone =>
        /\ SameResult
        /\ InvokedIn(log) \subseteq InvokedIn(first.log)
        /\ \A s \in InvokedIn(first.log) \ InvokedIn(log) : ~Capability(s)
        /\ \A s \in InvokedIn(first.log) : Capability(s) => s \in InvokedIn(log)

\* C20 witness: both requests ended with links the browser session found,
\* yt-dlp being absent
C20_Witness ==
    /\ PairDone
    /\ ~HAS_YTDLP
    /\ response.method = "playwright"
    /\ first.response.method = "playwright"
    /\ "yt_dlp" \in InvokedIn(first.log) \ InvokedIn(log)

\* the mobile context has been created in the running call
MobileOpened == pw.at # "idle" /\ 2 \in Range(browser.opened)

\* C21 as stated: within one call of playwright_extract the contexts are
\* created in the order desktop, mobile, at most two of them, at most one is
\* open at any moment, and the mobile one is created only after the desktop
\* iteration ended, normally or by an exception, with nothing collected.
C21_OneAtATimeMobileIfNothing ==
    /\ browser.opened \in {<<>>, <<1>>, <<2>>, <<1, 2>>}
    /\ Cardinality(browser.open) <= 1
    /\ MobileOpened =>
          (session.desktop.ended # "-" /\ ~session.desktop.found)

\* C21 amended: within one call of playwright_extract the contexts are
\* created in the order desktop, mobile, at most two of them; the desktop
\* context is still open during the mobile iteration only if a close()
\* raised; and the mobile context is created only after the desktop
\* iteration ended normally with nothing collected, or ended by an
\* exception (whatever had been collected).
C21_ContextsInTurn ==
    /\ browser.opened \in {<<>>, <<1>>, <<2>>, <<1, 2>>}
    /\ browser.open \subseteq Range(browser.opened)
    /\ (1 \in browser.open /\ pw.ctx = 2) => session.failure = "step"
    /\ Cardinality(browser.open) = 2 => session.failure = "step"
    /\ MobileOpened =>
          \/ session.desktop.ended = "exception"
          \/ session.desktop.ended = "normally" /\ ~session.desktop.found

\* C21 witness: the mobile context is the only one open, created after the
\* desktop iteration ended by an exception with a URL already collected
C21_Witness ==
    /\ browser.opened = <<1, 2>>
    /\ browser.open = {2}
    /\ pw.at = "goto"
    /\ session.desktop = [ended |-> "exception", found |-> TRUE]

====
